---- MODULE Spec2Model ----
(***************************************************************************)
(* Model of the blog feed handler of functions/api/blog.js: onRequestGet   *)
(* run by concurrent requests against one KV cache store (BLOG_CACHE) and  *)
(* one upstream feed.  Every await of the handler is a separate step, so   *)
(* time may pass and other requests may run between two steps.             *)
(***************************************************************************)
EXTENDS Integers, Sequences, FiniteSets, TLC

\* ---------------------------------------------------------------- bounds
Step == 200          \* seconds by which one Tick advances the clock
MaxTime == 800       \* the clock stops advancing here
MaxItems == 7         \* item blocks of a dated feed
MaxTokens == 4        \* pieces of an arbitrary document
MaxFrags == 3         \* fragments of a title or description text
MaxElapsed == 12      \* seconds the page is watched after the load
MaxPosts == 7         \* posts in the envelope /api/blog answers with
MaxPosted == 2        \* submissions sent to /contact
MaxHistory == 4       \* entries of the session history
MaxSent == 2          \* emails the mail provider accepts

\* ------------------------------------------------------ program constants
TTL == 600           \* expirationTtl of the cache put, in seconds

\* the requests that run onRequestGet concurrently
Reqs == {"A", "B"}

NoEntry == [absent |-> TRUE]
NoResponse == [status |-> "none"]
NoFetch == [outcome |-> "none"]
FetchFailed(why) == [outcome |-> why]
Fetched(doc) == [outcome |-> "ok", text |-> doc]
NoPut == [by |-> "nobody"]

\* ------------------------------------------------------------ the upstream
\* A text is the sequence of its characters.  A feed document (xmlText) is
\* the sequence of its pieces: the delimiters <item> and </item>, complete
\* elements <tag>text</tag> or <tag><![CDATA[text]]></tag>, and other
\* character data.  The texts inside elements hold no element of the names
\* the parser looks for.
OpenItem == [k |-> "<item>"]
CloseItem == [k |-> "</item>"]
El(tag, isCdata, text) == [k |-> "el", tag |-> tag, cdata |-> isCdata, text |-> text]
Chars(text) == [k |-> "chars", text |-> text]

Untitled == << "U", "n", "t", "i", "t", "l", "e", "d" >>
SiteAuthor == << "D", "r", "e", "a", "m", " ", "t", "h", "e", " ", "W", "i", "l", "d", "e", "r", "n", "e", "s", "s" >>
NoLink == << "#" >>
Jan1 == << "2", "0", "2", "4", "-", "0", "1", "-", "0", "1" >>
Jun1 == << "2", "0", "2", "4", "-", "0", "6", "-", "0", "1" >>
BadDate == << "s", "o", "o", "n" >>
\* new Date().toISOString() at the time of the parse
NowISO == << "2", "0", "2", "5", "-", "1", "1", "-", "0", "8", "T", "0", "0", ":", "0", "0", ":", "0", "0", ".", "0", "0", "0", "Z" >>

\* the value of a null image
Null == << "null" >>
\* the outcome of reading a group of a failed match
Raised == << "TypeError" >>
\* the Error parseRssFeed throws from its catch
ParseFailure == << [error |-> "Failed to parse RSS"] >>

\* numbers as Date.prototype.getTime returns them, in days since the epoch
Num(n) == [nan |-> FALSE, ms |-> n]
NaN == [nan |-> TRUE, ms |-> 0]

\* an item block as the feed writes it: CDATA title, plain pubDate
Item(t, d) == << OpenItem, El("title", TRUE, t), El("pubDate", FALSE, d), CloseItem >>

TitleA == << "A", "l", "p", "h", "a" >>
TitleB == << "B", "e", "t", "a" >>

Docs ==
  { << >>,
    Item(TitleA, Jan1) \o Item(TitleB, Jun1) }

\* ------------------------------------------------------------- text helpers
\* variant: the cut keeps one character more
MinLoose(a, b) == IF a <= b THEN a ELSE b + 1

Min(a, b) == IF a <= b THEN a ELSE b

\* first index i >= from with s[i] = c, or 0
IndexOfChar(s, c, from) ==
  LET I == {i \in from..Len(s) : s[i] = c}
  IN IF I = {} THEN 0 ELSE CHOOSE i \in I : \A j \in I : i <= j

HasChar(s, c) == IndexOfChar(s, c, 1) # 0

StartsWithAt(s, p, i) ==
  /\ i >= 1
  /\ i + Len(p) - 1 <= Len(s)
  /\ SubSeq(s, i, i + Len(p) - 1) = p

\* String.prototype.trim
IsSpace(c) == c \in {" ", "\n", "\t", "\r"}

RECURSIVE TrimStart(_)
TrimStart(s) == IF s # << >> /\ IsSpace(Head(s)) THEN TrimStart(Tail(s)) ELSE s

RECURSIVE TrimEnd(_)
TrimEnd(s) ==
  IF s # << >> /\ IsSpace(s[Len(s)]) THEN TrimEnd(SubSeq(s, 1, Len(s) - 1)) ELSE s

Trim(s) == TrimEnd(TrimStart(s))

\* s.replace(/pat/g, rep) for a literal pat
RECURSIVE ReplaceAll(_, _, _)
ReplaceAll(s, pat, rep) ==
  LET I == {i \in 1..Len(s) : StartsWithAt(s, pat, i)}
  IN IF I = {} THEN s
     ELSE LET i == CHOOSE x \in I : \A j \in I : x <= j
          IN SubSeq(s, 1, i - 1) \o rep
               \o ReplaceAll(SubSeq(s, i + Len(pat), Len(s)), pat, rep)

\* s.replace(/<[^>]*>/g, ''): a match runs from a < to the next >
RECURSIVE StripTags(_)
StripTags(s) ==
  LET lt == IndexOfChar(s, "<", 1)
      gt == IF lt = 0 THEN 0 ELSE IndexOfChar(s, ">", lt + 1)
  IN IF gt = 0 THEN s
     ELSE SubSeq(s, 1, lt - 1) \o StripTags(SubSeq(s, gt + 1, Len(s)))

\* the entities table of decodeHtml: entities[match] || match
EntityOf(m) ==
  CASE m = << "&", "a", "m", "p", ";" >> -> << "&" >>
    [] m = << "&", "l", "t", ";" >> -> << "<" >>
    [] m = << "&", "g", "t", ";" >> -> << ">" >>
    [] m = << "&", "q", "u", "o", "t", ";" >> -> << "\"" >>
    [] m = << "&", "#", "0", "3", "9", ";" >> -> << "'" >>
    [] m = << "&", "n", "b", "s", "p", ";" >> -> << " " >>
    [] OTHER -> m

\* html.replace(/&[^;]+;/g, ...): a match runs from an & that is not
\* directly followed by ; to the next ;
RECURSIVE decodeHtml(_)
decodeHtml(s) ==
  LET I == {i \in 1..Len(s) :
              /\ s[i] = "&"
              /\ i + 2 <= Len(s)
              /\ s[i + 1] # ";"
              /\ IndexOfChar(s, ";", i + 2) # 0}
  IN IF I = {} THEN s
     ELSE LET i == CHOOSE x \in I : \A j \in I : x <= j
              semi == IndexOfChar(s, ";", i + 2)
          IN SubSeq(s, 1, i - 1) \o EntityOf(SubSeq(s, i, semi))
               \o decodeHtml(SubSeq(s, semi + 1, Len(s)))

\* ------------------------------------------------------------ parseRssFeed
\* first index i >= from of a piece of kind k, or 0
RECURSIVE IndexOfKind(_, _, _)
IndexOfKind(doc, kind, from) ==
  IF from > Len(doc) THEN 0
  ELSE IF doc[from].k = kind THEN from
  ELSE IndexOfKind(doc, kind, from + 1)

\* variant: the item pattern is greedy, running to the last </item>
ItemContentsGreedy(doc, from) ==
  LET o == IndexOfKind(doc, "<item>", from)
      C == {i \in 1..Len(doc) : i > o /\ doc[i].k = "</item>"}
  IN IF o = 0 \/ C = {} THEN << >>
     ELSE << SubSeq(doc, o + 1, (CHOOSE c \in C : \A i \in C : c >= i) - 1) >>

\* the successive itemMatch[1] of /<item>([\s\S]*?)<\/item>/g from lastIndex
RECURSIVE ItemContents(_, _)
ItemContents(doc, from) ==
  LET o == IndexOfKind(doc, "<item>", from)
      c == IF o = 0 THEN 0 ELSE IndexOfKind(doc, "</item>", o + 1)
  IN IF o = 0 \/ c = 0 THEN << >>
     ELSE << SubSeq(doc, o + 1, c - 1) >> \o ItemContents(doc, c + 1)

\* itemContent.match(pattern), given the indexes of the pieces the pattern
\* matches: the first of them, or 0 for null
FirstMatch(I) == IF I = {} THEN 0 ELSE CHOOSE i \in I : \A j \in I : i <= j

\* /<title[^>]*><!\[CDATA\[(.*?)\]\]><\/title>/ : . stops at a line break
TitleCdataPattern(p) ==
  p.k = "el" /\ p.tag = "title" /\ p.cdata /\ ~HasChar(p.text, "\n")

\* /<title[^>]*>([^<]+)<\/title>/
TitlePlainPattern(p) ==
  p.k = "el" /\ p.tag = "title" /\ ~p.cdata /\ p.text # << >> /\ ~HasChar(p.text, "<")

\* /<tag[^>]*>([^<]*)<\/tag>/ for link, pubDate and creator
PlainPattern(p, tag) ==
  p.k = "el" /\ p.tag = tag /\ ~p.cdata /\ ~HasChar(p.text, "<")

\* variant: the description pattern takes a plain description as well
DescriptionPatternAny(p) == p.k = "el" /\ p.tag = "description"

\* /<description[^>]*><!\[CDATA\[([\s\S]*?)\]\]><\/description>/
DescriptionPattern(p) == p.k = "el" /\ p.tag = "description" /\ p.cdata

\* variant: group 1 of the plain match is read without the null test
TitleUnchecked(content) ==
  LET c == FirstMatch({x \in DOMAIN content : TitleCdataPattern(content[x])})
      p == FirstMatch({x \in DOMAIN content : TitlePlainPattern(content[x])})
  IN IF c # 0 THEN decodeHtml(Trim(content[c].text))
     ELSE IF p # 0 THEN decodeHtml(Trim(content[p].text))
     ELSE Raised

\* the title of one item block
Title(content) ==
  LET c == FirstMatch({x \in DOMAIN content : TitleCdataPattern(content[x])})
      p == FirstMatch({x \in DOMAIN content : TitlePlainPattern(content[x])})
  IN IF c # 0 THEN decodeHtml(Trim(content[c].text))
     ELSE IF p # 0 THEN decodeHtml(Trim(content[p].text))
     ELSE Untitled

\* descriptionHtml.match(/<img[^>]+src=["']([^"']+)["']/): the candidate
\* matches as pairs of the index of <img and the index of src=
IsQuote(c) == c \in {"\"", "'"}

IndexOfQuote(s, from) ==
  LET I == {i \in from..Len(s) : IsQuote(s[i])}
  IN IF I = {} THEN 0 ELSE CHOOSE i \in I : \A j \in I : i <= j

ImgMatches(s) ==
  UNION {{<< i, j >> : j \in {y \in (i + 5)..Len(s) :
                               /\ StartsWithAt(s, << "s", "r", "c", "=" >>, y)
                               /\ \A x \in (i + 4)..(y - 1) : s[x] # ">"
                               /\ y + 4 <= Len(s) /\ IsQuote(s[y + 4])
                               /\ IndexOfQuote(s, y + 5) > y + 5}} :
           i \in {x \in 1..Len(s) : StartsWithAt(s, << "<", "i", "m", "g" >>, x)}}

\* imgMatch ? imgMatch[1] : null -- the leftmost <img, the last src= of it
Image(s) ==
  LET M == ImgMatches(s)
  IN IF M = {} THEN Null
     ELSE LET i == CHOOSE a \in {m[1] : m \in M} : \A m \in M : a <= m[1]
              j == CHOOSE b \in {m[2] : m \in {n \in M : n[1] = i}} :
                     \A m \in {n \in M : n[1] = i} : b >= m[2]
          IN SubSeq(s, j + 5, IndexOfQuote(s, j + 5) - 1)

\* the cleaned description text
CleanDescription(html) ==
  Trim(ReplaceAll(ReplaceAll(ReplaceAll(ReplaceAll(ReplaceAll(
    StripTags(html), << "&", "n", "b", "s", "p", ";" >>, << " " >>), << "&", "q", "u", "o", "t", ";" >>, << "\"" >>), << "&", "a", "m", "p", ";" >>, << "&" >>),
    << "&", "l", "t", ";" >>, << "<" >>), << "&", "g", "t", ";" >>, << ">" >>))

\* new Date(pubDateStr).getTime(); NaN for a text that is no date
DateGetTime(d) ==
  CASE d = Jan1 -> Num(19723)
    [] d = Jun1 -> Num(19875)
    [] d = NowISO -> Num(20400)
    [] OTHER -> NaN

\* the record pushed for one item block
Record(content) ==
  LET d == FirstMatch({x \in DOMAIN content : DescriptionPattern(content[x])})
      l == FirstMatch({x \in DOMAIN content : PlainPattern(content[x], "link")})
      pd == FirstMatch({x \in DOMAIN content : PlainPattern(content[x], "pubDate")})
      cr == FirstMatch({x \in DOMAIN content : PlainPattern(content[x], "creator")})
      description == IF d # 0 THEN CleanDescription(content[d].text) ELSE << >>
      pubDateStr == IF pd # 0 THEN content[pd].text ELSE NowISO
  IN [title |-> Title(content),
      description |-> SubSeq(description, 1, Min(Len(description), 200)),
      link |-> IF l # 0 THEN content[l].text ELSE NoLink,
      pubDate |-> pubDateStr,
      author |-> IF cr # 0 THEN decodeHtml(content[cr].text) ELSE SiteAuthor,
      image |-> IF d # 0 THEN Image(content[d].text) ELSE Null,
      timestamp |-> DateGetTime(pubDateStr)]

\* the comparator (a, b) => b.timestamp - a.timestamp
Compare(a, b) ==
  IF a.timestamp.nan \/ b.timestamp.nan THEN NaN
  ELSE Num(b.timestamp.ms - a.timestamp.ms)

\* the comparator as the sort calls it: a NaN result counts as +0
SortCompare(a, b) == LET v == Compare(a, b) IN IF v.nan THEN 0 ELSE v.ms

\* Array.prototype.sort of the runtime (V8, arrays shorter than 64): the
\* leading run is counted, reversed when strictly descending, and the rest
\* is placed by binary insertion.
RECURSIVE RunEnd(_, _, _)
RunEnd(w, idx, isDescending) ==
  IF idx > Len(w) THEN Len(w)
  ELSE LET order == SortCompare(w[idx], w[idx - 1])
       IN IF (isDescending /\ order >= 0) \/ (~isDescending /\ order < 0)
            THEN idx - 1
            ELSE RunEnd(w, idx + 1, isDescending)

RECURSIVE Reverse(_)
Reverse(s) == IF s = << >> THEN << >> ELSE Append(Reverse(Tail(s)), Head(s))

CountRun(w) == RunEnd(w, 3, SortCompare(w[2], w[1]) < 0)

MakeRun(w) ==
  IF SortCompare(w[2], w[1]) < 0
    THEN Reverse(SubSeq(w, 1, CountRun(w))) \o SubSeq(w, CountRun(w) + 1, Len(w))
    ELSE w

RECURSIVE BinarySearch(_, _, _, _)
BinarySearch(w, pivot, left, right) ==
  IF left >= right THEN left
  ELSE LET mid == left + ((right - left) \div 2)
       IN IF SortCompare(pivot, w[mid]) < 0
            THEN BinarySearch(w, pivot, left, mid)
            ELSE BinarySearch(w, pivot, mid + 1, right)

RECURSIVE BinaryInsertionSort(_, _)
BinaryInsertionSort(w, start) ==
  IF start > Len(w) THEN w
  ELSE LET pivot == w[start]
           left == BinarySearch(w, pivot, 1, start)
       IN BinaryInsertionSort(
            SubSeq(w, 1, left - 1) \o << pivot >> \o SubSeq(w, left, start - 1)
              \o SubSeq(w, start + 1, Len(w)),
            start + 1)

\* items.sort((a, b) => b.timestamp - a.timestamp)
SortItems(s) ==
  IF Len(s) < 2 THEN s ELSE BinaryInsertionSort(MakeRun(s), CountRun(s) + 1)

\* the items array when the while loop ends, in document order
Unsorted(doc) ==
  LET contents == ItemContents(doc, 1)
  IN [i \in 1..Len(contents) |-> Record(contents[i])]

\* a statement of the loop body raised for this record
RaisedIn(rec) == Raised \in {rec.title, rec.description, rec.link, rec.pubDate, rec.author}

parseRssFeed(doc) ==
  LET recs == Unsorted(doc)
  IN IF \E i \in 1..Len(recs) : RaisedIn(recs[i]) THEN ParseFailure
     ELSE SortItems(recs)

\* ------------------------------------------------------------- responses
OkResponse(its, upd, isCached) ==
  [status |-> "ok", http |-> 200, items |-> its, count |-> Len(its),
   updatedAt |-> upd, cached |-> isCached]

ErrorResponse ==
  [status |-> "error", http |-> 500, message |-> "Unable to fetch blog posts"]

VARIABLES
  now,          \* the clock, in seconds
  configured,   \* env.BLOG_CACHE is bound
  cache,        \* the value under 'blog_feed_cache' and its expiration
  pc,           \* where each request is suspended
  getResult,    \* outcome of BLOG_CACHE.get for the request
  fetchResult,  \* outcome of fetch / text() for the request
  putResult,    \* outcome of BLOG_CACHE.put for the request
  items,        \* the request's local items
  updatedAt,    \* the request's local updatedAt (put branch)
  resp,         \* the response the request returned
  lastPut       \* the put that completed last

\* the page in the visitor's browser
VARIABLES
  elapsed,      \* seconds since loadSubstackPosts was called
  loaderPc,     \* where loadSubstackPosts is suspended
  loadTimer,    \* the 10-second timer (timeoutId)
  fetchTimer,   \* the 8-second timer (fetchTimeout)
  apiData,      \* the body response.json() resolved with
  loadError,    \* the error caught by loadSubstackPosts
  view,         \* the content of the #blog-posts container
  form,         \* the values of the contact form's fields
  formPc,       \* where handleFormSubmit is suspended
  formMessage,  \* the content of #formMessage
  fieldErrors,  \* the fields marked with an error
  posted,       \* the submissions sent to /contact
  button,       \* the submit button: its label and whether it is disabled
  shown,        \* the section with class active
  entries,      \* the session history of the tab
  index,        \* the position of the current entry in it
  activeSections, \* the content sections with class active
  activeLinks,  \* the elements with data-section and class active
  menuOpen,     \* #navLinks has class active
  ariaExpanded  \* aria-expanded of the mobile menu toggle

\* the contact relay, functions/contact.js
VARIABLES
  relayEnv,     \* which of RESEND_API_KEY and CONTACTS_KV the deployment binds
  relayPc,      \* where onRequestPost is suspended
  relayReq,     \* the fields of the request's form data
  relaySent,    \* the mail provider accepted this request's email
  relayResp,    \* the response onRequestPost returned
  outbox,       \* the emails the provider accepted
  contacts      \* the puts CONTACTS_KV completed

loader == << elapsed, loaderPc, loadTimer, fetchTimer, apiData, loadError, view >>
contact == << form, formPc, formMessage, fieldErrors, posted, button >>
history == << shown, entries, index >>
dom == << activeSections, activeLinks, menuOpen, ariaExpanded >>
navigation == << history, dom >>
page == << loader, contact, navigation >>
relay == << relayEnv, relayPc, relayReq, relaySent, relayResp, outbox, contacts >>

server == << now, configured, cache, pc, getResult, fetchResult,
             putResult, items, updatedAt, resp, lastPut >>

vars == << now, configured, cache, pc, getResult, fetchResult,
           putResult, items, updatedAt, resp, lastPut, page, relay >>

\* the blog container as the document ships it
Skeleton == [kind |-> "skeleton"]
NoData == [status |-> "none"]
NoError == [name |-> "none"]
\* the contact form as the document ships it, without a Turnstile widget
EmptyForm == [name |-> << >>, email |-> << >>, message |-> << >>, token |-> "absent"]
\* the submit button as handleFormSubmit leaves it, and while a request runs
SendButton == [label |-> "Send Message", disabled |-> FALSE]
SendingButton == [label |-> "Sending...", disabled |-> TRUE]
\* the values of data-section in document order: the navigation's links,
\* then a link to the blog inside the content
Links == << "home", "about", "blog", "blog" >>
\* document.querySelector('[data-section="..."]'): the first such element
FirstLink(section) ==
  CHOOSE i \in DOMAIN Links : Links[i] = section /\ \A j \in 1..(i - 1) : Links[j] # section
\* the relay before a request: no bindings seen, no form data
NoEnv == [key |-> "unset", kv |-> "unset"]
NoFields == [name |-> Null, email |-> Null, message |-> Null]
\* the entry the browser creates for the page load; its state is null
LoadEntry(hash) == [state |-> "null", hash |-> hash]

\* no script of the page has run
PageInit ==
  /\ elapsed = 0
  /\ loaderPc = "idle"
  /\ loadTimer = "off"
  /\ fetchTimer = "off"
  /\ apiData = NoData
  /\ loadError = NoError
  /\ view = Skeleton
  /\ form = EmptyForm
  /\ formPc = "idle"
  /\ formMessage = [type |-> "none", text |-> ""]
  /\ fieldErrors = {}
  /\ posted = << >>
  /\ button = SendButton
  /\ shown = "home"
  /\ entries = << LoadEntry("home") >>
  /\ index = 1
  /\ activeSections = {"home"}
  /\ activeLinks = {FirstLink("home")}
  /\ menuOpen = FALSE
  /\ ariaExpanded = "false"

\* no request has reached the contact relay
RelayInit ==
  /\ relayEnv = NoEnv
  /\ relayPc = "idle"
  /\ relayReq = NoFields
  /\ relaySent = FALSE
  /\ relayResp = NoResponse
  /\ outbox = << >>
  /\ contacts = << >>

Init ==
  /\ now = 0
  /\ configured \in BOOLEAN
  /\ cache = NoEntry
  /\ pc = [r \in Reqs |-> "idle"]
  /\ getResult = [r \in Reqs |-> "none"]
  /\ fetchResult = [r \in Reqs |-> NoFetch]
  /\ putResult = [r \in Reqs |-> "none"]
  /\ items = [r \in Reqs |-> << >>]
  /\ updatedAt = [r \in Reqs |-> 0]
  /\ resp = [r \in Reqs |-> NoResponse]
  /\ lastPut = NoPut
  /\ PageInit
  /\ RelayInit

\* ------------------------------------------------------------ the KV store
\* variant: the put asks for a one-minute expirationTtl
KVEntryShort(v, t) == [value |-> v, expiration |-> t + 60]

\* the entry a put of value v at time t leaves in the store
KVEntry(v, t) == [value |-> v, expiration |-> t + TTL]

\* the store drops an entry once its expiration is reached
KVExpire(c, t) == IF c # NoEntry /\ t >= c.expiration THEN NoEntry ELSE c

\* variant: the put keeps the updatedAt of the entry it replaces
CacheValueMerged(r) ==
  [items |-> items[r],
   updatedAt |-> IF cache = NoEntry THEN updatedAt[r] ELSE cache.value.updatedAt]

\* the value JSON.stringify'd by the handler
CacheValue(r) == [items |-> items[r], updatedAt |-> updatedAt[r]]

Tick ==
  /\ now + Step <= MaxTime
  /\ now' = now + Step
  /\ cache' = KVExpire(cache, now')
  /\ UNCHANGED << page, relay, configured, pc, getResult, fetchResult, putResult,
                  items, updatedAt, resp, lastPut >>

\* ------------------------------------------------------------ onRequestGet
Free(r) == pc[r] \in {"idle", "done", "abandoned"}

\* a request enters the handler: its locals are fresh
Enter(r, g, p, rs) ==
  /\ getResult' = [getResult EXCEPT ![r] = g]
  /\ fetchResult' = [fetchResult EXCEPT ![r] = NoFetch]
  /\ putResult' = [putResult EXCEPT ![r] = "none"]
  /\ items' = [items EXCEPT ![r] = << >>]
  /\ updatedAt' = [updatedAt EXCEPT ![r] = 0]
  /\ pc' = [pc EXCEPT ![r] = p]
  /\ resp' = [resp EXCEPT ![r] = rs]
  /\ UNCHANGED << page, relay, now, configured, cache, lastPut >>

\* env.BLOG_CACHE is not bound: straight to the fetch
StartNoCache(r) ==
  /\ Free(r)
  /\ ~configured
  /\ Enter(r, "skipped", "fetch", NoResponse)

\* variant: a get that throws reaches the outer catch
StartCacheThrowsPropagated(r) ==
  /\ Free(r)
  /\ configured
  /\ Enter(r, "threw", "done", ErrorResponse)

\* BLOG_CACHE.get throws: warned, then the fetch
StartCacheThrows(r) ==
  /\ Free(r)
  /\ configured
  /\ Enter(r, "threw", "fetch", NoResponse)

\* BLOG_CACHE.get returns null
StartCacheMiss(r) ==
  /\ Free(r)
  /\ configured
  /\ cache = NoEntry
  /\ Enter(r, "miss", "fetch", NoResponse)

\* variant: the hit path stamps the response with the current time
HitResponseNow(c) == OkResponse(c.value.items, now, TRUE)

\* the response built from cachedData
HitResponse(c) == OkResponse(c.value.items, c.value.updatedAt, TRUE)

\* variant: a hit writes the entry back, restarting its expiration
StartCacheHitRefresh(r) ==
  /\ Free(r)
  /\ configured
  /\ cache # NoEntry
  /\ getResult' = [getResult EXCEPT ![r] = "hit"]
  /\ fetchResult' = [fetchResult EXCEPT ![r] = NoFetch]
  /\ putResult' = [putResult EXCEPT ![r] = "none"]
  /\ items' = [items EXCEPT ![r] = << >>]
  /\ updatedAt' = [updatedAt EXCEPT ![r] = 0]
  /\ pc' = [pc EXCEPT ![r] = "done"]
  /\ resp' = [resp EXCEPT ![r] = HitResponse(cache)]
  /\ cache' = KVEntry(cache.value, now)
  /\ UNCHANGED << page, relay, now, configured, lastPut >>

\* BLOG_CACHE.get returns the entry: answered from it
StartCacheHit(r) ==
  /\ Free(r)
  /\ configured
  /\ cache # NoEntry
  /\ Enter(r, "hit", "done", HitResponse(cache))

\* the response of onRequestOptions
OptionsResponse == [status |-> "preflight", http |-> 200]

\* onRequestOptions: the CORS preflight, answered without touching the cache
Options(r) ==
  /\ Free(r)
  /\ Enter(r, "none", "done", OptionsResponse)

\* the request ends with the response rs
Finish(r, rs) ==
  /\ pc' = [pc EXCEPT ![r] = "done"]
  /\ resp' = [resp EXCEPT ![r] = rs]

\* variant: the outer catch answers with an empty success envelope
CatchResponseEmpty == OkResponse(<< >>, now, FALSE)

\* the response of the outer catch
CatchResponse == ErrorResponse

\* variant: a rejected fetch is cached as an empty feed
FetchThrowsCached(r) ==
  /\ pc[r] = "fetch"
  /\ fetchResult' = [fetchResult EXCEPT ![r] = FetchFailed("neterr")]
  /\ Finish(r, CatchResponse)
  /\ cache' = IF configured
                THEN KVEntry([items |-> << >>, updatedAt |-> now], now)
                ELSE cache
  /\ UNCHANGED << page, relay, now, configured, getResult, putResult,
                  items, updatedAt, lastPut >>

\* fetch rejects (network error)
FetchThrows(r) ==
  /\ pc[r] = "fetch"
  /\ fetchResult' = [fetchResult EXCEPT ![r] = FetchFailed("neterr")]
  /\ Finish(r, CatchResponse)
  /\ UNCHANGED << page, relay, now, configured, cache, getResult, putResult,
                  items, updatedAt, lastPut >>

\* variant: a non-ok status is answered as a feed without items
FetchNotOkAsEmpty(r) ==
  /\ pc[r] = "fetch"
  /\ fetchResult' = [fetchResult EXCEPT ![r] = FetchFailed("http500")]
  /\ Finish(r, OkResponse(<< >>, now, FALSE))
  /\ UNCHANGED << page, relay, now, configured, cache, getResult, putResult,
                  items, updatedAt, lastPut >>

\* fetch resolves with a non-ok status
FetchNotOk(r) ==
  /\ pc[r] = "fetch"
  /\ fetchResult' = [fetchResult EXCEPT ![r] = FetchFailed("http500")]
  /\ Finish(r, CatchResponse)
  /\ UNCHANGED << page, relay, now, configured, cache, getResult, putResult,
                  items, updatedAt, lastPut >>

\* fetch resolves with an ok status: the body is awaited next
FetchOk(r) ==
  /\ pc[r] = "fetch"
  /\ pc' = [pc EXCEPT ![r] = "text"]
  /\ UNCHANGED << page, relay, now, configured, cache, getResult, fetchResult,
                  putResult, items, updatedAt, resp, lastPut >>

\* feedResponse.text() rejects
TextThrows(r) ==
  /\ pc[r] = "text"
  /\ fetchResult' = [fetchResult EXCEPT ![r] = FetchFailed("bodyerr")]
  /\ Finish(r, CatchResponse)
  /\ UNCHANGED << page, relay, now, configured, cache, getResult, putResult,
                  items, updatedAt, lastPut >>

\* variant: the put is not guarded by the record count
ShouldCacheAlways(its) == configured

\* the guard of the put
ShouldCache(its) == configured /\ Len(its) > 0

\* variant: the miss path reports a count that is not the list's length
MissResponseNoCount(r) ==
  [status |-> "ok", http |-> 200, items |-> items[r], count |-> 0,
   updatedAt |-> now, cached |-> FALSE]

\* the response of the miss path
MissResponse(r) == OkResponse(items[r], now, FALSE)

\* feedResponse.text() resolves with doc: parsed, then either the put is
\* started with updatedAt = now or the response is returned; an Error
\* thrown by parseRssFeed reaches the outer catch
TextOk(r, doc) ==
  /\ pc[r] = "text"
  /\ fetchResult' = [fetchResult EXCEPT ![r] = Fetched(doc)]
  /\ IF parseRssFeed(doc) = ParseFailure
       THEN /\ UNCHANGED << items, updatedAt >>
            /\ Finish(r, CatchResponse)
       ELSE /\ items' = [items EXCEPT ![r] = parseRssFeed(doc)]
            /\ IF ShouldCache(items'[r])
                 THEN /\ updatedAt' = [updatedAt EXCEPT ![r] = now]
                      /\ pc' = [pc EXCEPT ![r] = "put"]
                      /\ UNCHANGED resp
                 ELSE /\ UNCHANGED updatedAt
                      /\ pc' = [pc EXCEPT ![r] = "done"]
                      /\ resp' = [resp EXCEPT ![r] = OkResponse(items'[r], now, FALSE)]
  /\ UNCHANGED << page, relay, now, configured, cache, getResult, putResult, lastPut >>

\* BLOG_CACHE.put resolves: the entry is replaced wholesale
PutOk(r) ==
  /\ pc[r] = "put"
  /\ cache' = KVEntry(CacheValue(r), now)
  /\ lastPut' = [by |-> r, items |-> items[r], updatedAt |-> updatedAt[r], at |-> now]
  /\ putResult' = [putResult EXCEPT ![r] = "ok"]
  /\ Finish(r, MissResponse(r))
  /\ UNCHANGED << page, relay, now, configured, getResult, fetchResult, items, updatedAt >>

\* variant: a put that throws reaches the outer catch
PutFailedResponseError(r) == ErrorResponse

\* the response after a put that threw
PutFailedResponse(r) == MissResponse(r)

\* BLOG_CACHE.put throws: warned, the response is returned all the same
PutThrows(r) ==
  /\ pc[r] = "put"
  /\ putResult' = [putResult EXCEPT ![r] = "threw"]
  /\ Finish(r, PutFailedResponse(r))
  /\ UNCHANGED << page, relay, now, configured, cache, getResult, fetchResult,
                  items, updatedAt, lastPut >>

\* the caller goes away while the upstream fetch is in flight
Abandon(r) ==
  /\ pc[r] \in {"fetch", "text"}
  /\ pc' = [pc EXCEPT ![r] = "abandoned"]
  /\ fetchResult' = [fetchResult EXCEPT ![r] = FetchFailed("aborted")]
  /\ UNCHANGED << page, relay, now, configured, cache, getResult, putResult,
                  items, updatedAt, resp, lastPut >>

Next ==
  \/ Tick
  \/ \E r \in Reqs : StartNoCache(r)
  \/ \E r \in Reqs : StartCacheThrows(r)
  \/ \E r \in Reqs : StartCacheMiss(r)
  \/ \E r \in Reqs : StartCacheHit(r)
  \/ \E r \in Reqs : FetchThrows(r)
  \/ \E r \in Reqs : FetchNotOk(r)
  \/ \E r \in Reqs : FetchOk(r)
  \/ \E r \in Reqs : TextThrows(r)
  \/ \E r \in Reqs : \E doc \in Docs : TextOk(r, doc)
  \/ \E r \in Reqs : PutOk(r)
  \/ \E r \in Reqs : PutThrows(r)
  \/ \E r \in Reqs : Abandon(r)
  \/ \E r \in Reqs : Options(r)

Spec == Init /\ [][Next]_vars

\* --------------------------------------------------- the parser's inputs
\* The texts the upstream can answer with are not bounded by the two feeds
\* of Docs.  SpecParse follows one request from the moment its fetch has
\* resolved with an ok status, over documents of two families: feeds of up
\* to MaxItems well-formed items with any mix of dates, and arbitrary
\* sequences of up to MaxTokens pieces.
Digits == << "1", "2", "3", "4", "5", "6", "7", "8", "9" >>

\* the title of the i-th item block of a dated feed
TitleOf(i) == << "T", Digits[i] >>

Dates == {Jan1, Jun1, BadDate}

DatedDocs ==
  UNION {{[i \in 1..(4 * n) |->
             Item(TitleOf(((i - 1) \div 4) + 1), ds[((i - 1) \div 4) + 1])[((i - 1) % 4) + 1]] :
            ds \in [1..n -> Dates]} : n \in 0..MaxItems}

TitleCdata == El("title", TRUE, << " ", "A", " ", "&", "a", "m", "p", ";", " ", "B", " " >>)
TitlePlain == El("title", FALSE, << "P", "l", "a", "i", "n" >>)
TitleLines == El("title", TRUE, << "L", "i", "n", "e", "\n", "T", "w", "o" >>)
Description ==
  El("description", TRUE,
     << "<", "p", ">", "H", "i", "&", "n", "b", "s", "p", ";",
        "<", "i", "m", "g", " ", "s", "r", "c", "=", "'", "u", "'", ">", "<", "/", "p", ">" >>)
Junk == Chars(<< "<", "i", "t", "e", "m", " ", ">" >>)

Pieces == {OpenItem, CloseItem, TitleCdata, TitlePlain, TitleLines, Description, Junk}

PieceDocs == UNION {[1..n -> Pieces] : n \in 0..MaxTokens}

ParseDocs == DatedDocs \cup PieceDocs

\* the request whose fetch has resolved
Fetching == "A"

InitParse ==
  /\ now = 0
  /\ configured \in BOOLEAN
  /\ cache = NoEntry
  /\ pc = [r \in Reqs |-> IF r = Fetching THEN "text" ELSE "idle"]
  /\ getResult = [r \in Reqs |->
                    IF r # Fetching THEN "none"
                    ELSE IF configured THEN "miss" ELSE "skipped"]
  /\ fetchResult = [r \in Reqs |-> NoFetch]
  /\ putResult = [r \in Reqs |-> "none"]
  /\ items = [r \in Reqs |-> << >>]
  /\ updatedAt = [r \in Reqs |-> 0]
  /\ resp = [r \in Reqs |-> NoResponse]
  /\ lastPut = NoPut
  /\ PageInit
  /\ RelayInit

NextParse ==
  \/ \E doc \in ParseDocs : TextOk(Fetching, doc)
  \/ PutOk(Fetching)
  \/ PutThrows(Fetching)

SpecParse == InitParse /\ [][NextParse]_vars

\* ---------------------------------------------------- the fields of an item
\* SpecFields follows the same request over feeds of one item block: blocks
\* with a title whose text is any run of up to MaxFrags fragments, blocks
\* with a CDATA description built the same way, and blocks with any choice
\* of the elements an item can carry.
RECURSIVE Flatten(_)
Flatten(ss) == IF ss = << >> THEN << >> ELSE Head(ss) \o Flatten(Tail(ss))

TextsOf(F) == {Flatten(fs) : fs \in UNION {[1..n -> F] : n \in 0..MaxFrags}}

OneItem(content) == << OpenItem >> \o content \o << CloseItem >>

TitleFrags == {<< " " >>, << "A" >>, << "&", "n", "b", "s", "p", ";" >>, << "&", "a", "m", "p", ";" >>, << "&" >>, << "&", "#", "0", "3", "9", ";" >>}

TitleDocs ==
  {OneItem(<< El("title", cd, t) >>) : cd \in BOOLEAN, t \in TextsOf(TitleFrags)}

\* 199 characters of running text
LongText == [i \in 1..199 |-> "x"]

DescFrags ==
  {<< "y" >>, << " " >>, << "&", "a", "m", "p", ";" >>, << "<", "b", ">" >>,
   << "<", "i", "m", "g", " ", "s", "r", "c", "=", "'", "a", "'", ">" >>,
   << "<", "i", "m", "g", " ", "s", "r", "c", "=", "\"", "a", "\"", " ",
      "d", "a", "t", "a", "-", "s", "r", "c", "=", "\"", "b", "\"", ">" >>}

\* the description texts: runs of fragments, alone or after the long text
DescTexts == TextsOf(DescFrags) \cup {LongText \o t : t \in TextsOf(DescFrags)}

DescDocs == {OneItem(<< El("description", TRUE, t) >>) : t \in DescTexts}

DescriptionPlain == El("description", FALSE, << "P", "l", "a", "i", "n", " ", "t", "e", "x", "t" >>)
Link == El("link", FALSE, << "h", "t", "t", "p", "s", ":", "/", "/", "x", "/", "p", "/", "1" >>)
PubDate == El("pubDate", FALSE, Jan1)
Creator == El("creator", FALSE, << "A", "n", "n" >>)
DcCreator == El("dc:creator", TRUE, << "A", "n", "n" >>)

Optional == << TitlePlain, Description, DescriptionPlain, Link, PubDate, Creator, DcCreator >>

\* the elements chosen by has, in the order of Optional
RECURSIVE Chosen(_, _)
Chosen(has, i) ==
  IF i > Len(Optional) THEN << >>
  ELSE (IF has[i] THEN << Optional[i] >> ELSE << >>) \o Chosen(has, i + 1)

FieldDocs == {OneItem(Chosen(has, 1)) : has \in [1..Len(Optional) -> BOOLEAN]}

ItemDocs == TitleDocs \cup DescDocs \cup FieldDocs

NextFields ==
  \/ \E doc \in ItemDocs : TextOk(Fetching, doc)
  \/ PutOk(Fetching)
  \/ PutThrows(Fetching)

SpecFields == InitParse /\ [][NextFields]_vars

\* ------------------------------------------------------- the blog loader
\* the delays of the two timers, in seconds, and the size of the preview
LoaderDelay == 10
FetchDelay == 8
Preview == 3

NoPostsMsg == "No posts found at this time"
SlowMsg == "Blog posts are taking longer than expected. Please try refreshing the page."
UnableMsg == "Unable to load posts at this time. Please check back later."
AbortMsg == "Blog posts took longer than expected to load. This might be a temporary network issue. Please try refreshing the page."
NetworkMsg == "Network connection issue detected. Please check your internet connection and try refreshing."
UnavailableMsg == "The blog service is temporarily unavailable. Please check back shortly."

\* showBlogError(message) and displayBlogPosts(posts) replace the container
Message(text) == [kind |-> "message", text |-> text]
Cards(posts) == [kind |-> "posts", posts |-> posts]

\* what the catch block can receive: the AbortError of an aborted fetch, the
\* TypeError of a failed fetch (its message names fetch or not, by browser),
\* the Error thrown for a non-OK status, the SyntaxError of a bad body
AbortError == [name |-> "AbortError", isTypeError |-> FALSE, saysFetch |-> FALSE, saysHttp |-> FALSE]
FailedToFetch == [name |-> "TypeError", isTypeError |-> TRUE, saysFetch |-> TRUE, saysHttp |-> FALSE]
LoadFailed == [name |-> "TypeError", isTypeError |-> TRUE, saysFetch |-> FALSE, saysHttp |-> FALSE]
HttpError == [name |-> "Error", isTypeError |-> FALSE, saysFetch |-> FALSE, saysHttp |-> TRUE]
BadBody == [name |-> "SyntaxError", isTypeError |-> FALSE, saysFetch |-> FALSE, saysHttp |-> FALSE]

NetworkErrors == {FailedToFetch, LoadFailed}

\* the bodies /api/blog can deliver; posts are numbered newest first
Envelopes ==
  {[status |-> "ok", items |-> [i \in 1..n |-> i]] : n \in 0..MaxPosts}
    \cup {[status |-> "error", items |-> << >>]}

\* variant: a failure is reported with the message of the empty result
CatchMessageNoPosts(error) == NoPostsMsg

\* the message chosen in the catch block
CatchMessage(error) ==
  IF error.name = "AbortError" THEN AbortMsg
  ELSE IF error.isTypeError /\ error.saysFetch THEN NetworkMsg
  ELSE IF error.saysHttp THEN UnavailableMsg
  ELSE UnableMsg

\* clearTimeout(id)
Cleared(timer) == IF timer = "armed" THEN "cleared" ELSE timer

\* the catch block: the 10-second timer is cleared, the message shown
Caught(error) ==
  /\ loadError' = error
  /\ loadTimer' = Cleared(loadTimer)
  /\ view' = Message(CatchMessage(error))
  /\ loaderPc' = "done"

\* DOMContentLoaded calls loadSubstackPosts: both timers are set and the
\* fetch is started
LoadStart ==
  /\ loaderPc = "idle"
  /\ loaderPc' = "fetch"
  /\ elapsed' = 0
  /\ loadTimer' = "armed"
  /\ fetchTimer' = "armed"
  /\ UNCHANGED << apiData, loadError, view, contact, navigation, server, relay >>

\* a second passes; a timer that is due runs first
TickLoader ==
  /\ loaderPc # "idle"
  /\ elapsed < MaxElapsed
  /\ ~(loadTimer = "armed" /\ elapsed >= LoaderDelay)
  /\ ~(fetchTimer = "armed" /\ elapsed >= FetchDelay)
  /\ elapsed' = elapsed + 1
  /\ UNCHANGED << loaderPc, loadTimer, fetchTimer, apiData, loadError, view,
                  contact, navigation, server, relay >>

\* the 10-second timer runs: a container that still shows the skeleton
\* loaders gets the message
LoadTimerFires ==
  /\ loadTimer = "armed"
  /\ elapsed >= LoaderDelay
  /\ loadTimer' = "fired"
  /\ view' = IF view = Skeleton THEN Message(SlowMsg) ELSE view
  /\ UNCHANGED << elapsed, loaderPc, fetchTimer, apiData, loadError,
                  contact, navigation, server, relay >>

\* the 8-second timer runs controller.abort(): a pending fetch rejects with
\* an AbortError, a settled one is not affected
FetchTimerFires ==
  /\ fetchTimer = "armed"
  /\ elapsed >= FetchDelay
  /\ fetchTimer' = "fired"
  /\ IF loaderPc = "fetch"
       THEN Caught(AbortError)
       ELSE UNCHANGED << loaderPc, loadTimer, loadError, view >>
  /\ UNCHANGED << elapsed, apiData, contact, navigation, server, relay >>

\* fetch rejects: the 8-second timer is left running
FetchRejects(error) ==
  /\ loaderPc = "fetch"
  /\ Caught(error)
  /\ UNCHANGED << elapsed, fetchTimer, apiData, contact, navigation, server, relay >>

\* variant: the response clears the 10-second timer as well
FetchRespondsClearsBoth(ok) ==
  /\ loaderPc = "fetch"
  /\ fetchTimer' = Cleared(fetchTimer)
  /\ IF ok
       THEN /\ loaderPc' = "json"
            /\ loadTimer' = Cleared(loadTimer)
            /\ UNCHANGED << loadError, view >>
       ELSE Caught(HttpError)
  /\ UNCHANGED << elapsed, apiData, contact, navigation, server, relay >>

\* fetch resolves with a response: the 8-second timer is cleared; a non-OK
\* status is thrown, an OK one starts reading the body
FetchResponds(ok) ==
  /\ loaderPc = "fetch"
  /\ fetchTimer' = Cleared(fetchTimer)
  /\ IF ok
       THEN /\ loaderPc' = "json"
            /\ UNCHANGED << loadTimer, loadError, view >>
       ELSE Caught(HttpError)
  /\ UNCHANGED << elapsed, apiData, contact, navigation, server, relay >>

\* response.json() rejects
JsonRejects ==
  /\ loaderPc = "json"
  /\ Caught(BadBody)
  /\ UNCHANGED << elapsed, fetchTimer, apiData, contact, navigation, server, relay >>

\* what the container shows for the body data
Rendered(data) ==
  IF data.status = "ok" /\ Len(data.items) > 0
    THEN Cards(SubSeq(data.items, 1, Min(Len(data.items), Preview)))
    ELSE Message(NoPostsMsg)

\* variant: the body is rendered only into a container that still shows
\* the skeleton loaders
JsonResolvesKeepsMessage(data) ==
  /\ loaderPc = "json"
  /\ apiData' = data
  /\ loadTimer' = Cleared(loadTimer)
  /\ view' = IF view = Skeleton THEN Rendered(data) ELSE view
  /\ loaderPc' = "done"
  /\ UNCHANGED << elapsed, fetchTimer, loadError, contact, navigation, server, relay >>

\* response.json() resolves with data: the 10-second timer is cleared and
\* the posts or the message are shown
JsonResolves(data) ==
  /\ loaderPc = "json"
  /\ apiData' = data
  /\ loadTimer' = Cleared(loadTimer)
  /\ view' = Rendered(data)
  /\ loaderPc' = "done"
  /\ UNCHANGED << elapsed, fetchTimer, loadError, contact, navigation, server, relay >>

\* the handler has not been called
ServerInit ==
  /\ now = 0
  /\ configured = FALSE
  /\ cache = NoEntry
  /\ pc = [r \in Reqs |-> "idle"]
  /\ getResult = [r \in Reqs |-> "none"]
  /\ fetchResult = [r \in Reqs |-> NoFetch]
  /\ putResult = [r \in Reqs |-> "none"]
  /\ items = [r \in Reqs |-> << >>]
  /\ updatedAt = [r \in Reqs |-> 0]
  /\ resp = [r \in Reqs |-> NoResponse]
  /\ lastPut = NoPut

InitLoader == ServerInit /\ PageInit /\ RelayInit

NextLoader ==
  \/ LoadStart
  \/ TickLoader
  \/ LoadTimerFires
  \/ FetchTimerFires
  \/ \E error \in NetworkErrors : FetchRejects(error)
  \/ \E ok \in BOOLEAN : FetchResponds(ok)
  \/ JsonRejects
  \/ \E data \in Envelopes : JsonResolves(data)

SpecLoader == InitLoader /\ [][NextLoader]_vars

\* The page's script runs, the clock runs and a timer that is due runs;
\* nothing makes /api/blog answer.
FairLoader ==
  /\ SpecLoader
  /\ WF_vars(LoadStart)
  /\ WF_vars(TickLoader)
  /\ WF_vars(LoadTimerFires)
  /\ WF_vars(FetchTimerFires)

\* ------------------------------------------------------ the contact form
Names == {<< >>, << " ", "A", " " >>, << "A", "l" >>}
Emails ==
  {<< >>, << "a", "@", "b" >>, << "a", "@", "b", ".", "c" >>,
   << "a", " ", "@", "b", ".", "c" >>}
Messages == {<< >>, [i \in 1..9 |-> "m"] \o << " ", " " >>, [i \in 1..10 |-> "m"]}
\* the input named cf-turnstile-response: not in the document, empty, set
Tokens == {"absent", "empty", "present"}

SecurityMsg == "Please complete the security verification"
ThanksMsg == "Thank you! Your message has been sent successfully."
RefusedMsg == "An error occurred. Please try again."
SorryMsg == "Sorry, there was an error sending your message. Please try again or email hello@dreamthewilderness.com directly."
TooLongMsg == "The request took too long to complete. Your internet connection may be slow. Please check your connection and try again."
ConnectMsg == "Network error: Unable to connect. Please check your internet connection and try again."
VerifyMsg == "Security error: Unable to verify request. Please refresh the page and try again."
ServerMsg == "Server error: The service is temporarily unavailable. Please try again later."

\* /^[^\s@]+@[^\s@]+\.[^\s@]+$/ : no whitespace, one @ after at least one
\* character, and behind it a dot with a character on either side
isValidEmail(email) ==
  /\ \A i \in 1..Len(email) : ~IsSpace(email[i])
  /\ \E a \in 2..Len(email) :
       /\ email[a] = "@"
       /\ \A i \in 1..Len(email) : email[i] = "@" => i = a
       /\ \E d \in (a + 2)..(Len(email) - 1) : email[d] = "."

\* the fields validateContactForm marks
InvalidFields(f) ==
  {x \in {"name"} : Len(Trim(f.name)) < 2}
    \cup {x \in {"email"} : Trim(f.email) = << >> \/ ~isValidEmail(Trim(f.email))}
    \cup {x \in {"message"} : Len(Trim(f.message)) < 10}

\* the visitor fills the form in; a field's mark goes when it is typed in
Fill(n, e, m, tk) ==
  /\ formPc = "idle"
  /\ form' = [name |-> n, email |-> e, message |-> m, token |-> tk]
  /\ fieldErrors' = {}
  /\ UNCHANGED << formPc, formMessage, posted, button, loader, navigation, server, relay >>

\* the Turnstile input exists and has a value
HasToken(f) == f.token = "present"

\* the errors the catch block of handleFormSubmit can receive
SubmitErrors ==
  {[name |-> "AbortError", isTypeError |-> FALSE, saysFetch |-> FALSE, status |-> 0],
   [name |-> "TypeError", isTypeError |-> TRUE, saysFetch |-> TRUE, status |-> 0],
   [name |-> "TypeError", isTypeError |-> TRUE, saysFetch |-> FALSE, status |-> 0],
   [name |-> "Error", isTypeError |-> FALSE, saysFetch |-> FALSE, status |-> 400],
   [name |-> "Error", isTypeError |-> FALSE, saysFetch |-> FALSE, status |-> 403],
   [name |-> "Error", isTypeError |-> FALSE, saysFetch |-> FALSE, status |-> 500]}

\* the message chosen in the catch block of handleFormSubmit
SubmitCatchMessage(error) ==
  IF error.name = "AbortError" THEN TooLongMsg
  ELSE IF error.isTypeError /\ error.saysFetch THEN ConnectMsg
  ELSE IF error.status \in {401, 403} THEN VerifyMsg
  ELSE IF error.status \in {500, 503} THEN ServerMsg
  ELSE SorryMsg

\* the submit event: validation, the token test, then the POST to /contact
Submit ==
  /\ formPc = "idle"
  /\ Len(posted) < MaxPosted
  /\ fieldErrors' = InvalidFields(form)
  /\ IF InvalidFields(form) # {}
       THEN UNCHANGED << formPc, formMessage, posted, button >>
       ELSE IF ~HasToken(form)
         THEN /\ formMessage' = [type |-> "error", text |-> SecurityMsg]
              /\ UNCHANGED << formPc, posted, button >>
         ELSE /\ formPc' = "sending"
              /\ button' = SendingButton
              /\ formMessage' = [formMessage EXCEPT !.type = "none"]
              /\ posted' = Append(posted, form)
  /\ UNCHANGED << form, loader, navigation, server, relay >>

\* the server answers success: the thanks are shown and the form is reset
SubmitSucceeds ==
  /\ formPc = "sending"
  /\ formMessage' = [type |-> "success", text |-> ThanksMsg]
  /\ fieldErrors' = {}
  /\ form' = [EmptyForm EXCEPT !.token = form.token]
  /\ formPc' = "idle"
  /\ button' = SendButton
  /\ UNCHANGED << posted, loader, navigation, server, relay >>

\* the server answers success: false
SubmitRefused ==
  /\ formPc = "sending"
  /\ formMessage' = [type |-> "error", text |-> RefusedMsg]
  /\ formPc' = "idle"
  /\ button' = SendButton
  /\ UNCHANGED << form, fieldErrors, posted, loader, navigation, server, relay >>

\* variant: the button is reset at the end of the try block, not in a finally
SubmitFailsNoFinally(error) ==
  /\ formPc = "sending"
  /\ formMessage' = [type |-> "error", text |-> SubmitCatchMessage(error)]
  /\ formPc' = "idle"
  /\ UNCHANGED << button, form, fieldErrors, posted, loader, navigation, server, relay >>

\* the fetch rejects, is aborted after 10 seconds, or answers a non-OK
\* status: the catch block shows the message, the finally block resets
\* the button
SubmitFails(error) ==
  /\ formPc = "sending"
  /\ formMessage' = [type |-> "error", text |-> SubmitCatchMessage(error)]
  /\ formPc' = "idle"
  /\ button' = SendButton
  /\ UNCHANGED << form, fieldErrors, posted, loader, navigation, server, relay >>

NextForm ==
  \/ \E n \in Names, e \in Emails, m \in Messages, tk \in Tokens : Fill(n, e, m, tk)
  \/ Submit
  \/ SubmitSucceeds
  \/ SubmitRefused
  \/ \E error \in SubmitErrors : SubmitFails(error)

SpecForm == InitLoader /\ [][NextForm]_vars

\* --------------------------------------------------- section navigation
Sections == {"home", "about", "blog"}

\* window.history.pushState({ section }, title, '#' + section): the entries
\* after the current one are dropped and the new one becomes current
PushState(section) ==
  /\ entries' = Append(SubSeq(entries, 1, index), [state |-> section, hash |-> section])
  /\ index' = index + 1

\* the ids of the document that the scripts name: the content sections and
\* the list of navigation links
Ids == Sections \cup {"navLinks"}

\* classList.remove('active') on every content section, then
\* classList.add('active') on the element with the id, if there is one
Activated(id) == (activeSections \ Sections) \cup ({id} \cap Sections)

\* the same for the elements with data-section: the first one with the
\* value is highlighted
Highlighted(section) ==
  (activeLinks \ DOMAIN Links) \cup {i \in DOMAIN Links : i = FirstLink(section) /\ Links[i] = section}

\* variant: the target section is shown without hiding the others
ShowSectionKeepsOthers(section) ==
  /\ shown' = section
  /\ activeSections' = activeSections \cup ({section} \cap Sections)
  /\ activeLinks' = Highlighted(section)
  /\ menuOpen' = FALSE
  /\ UNCHANGED ariaExpanded
  /\ PushState(section)

\* showSection(sectionName): the section and its link are made the active
\* ones, the mobile menu is closed and an entry is pushed
ShowSection(section) ==
  /\ shown' = section
  /\ activeSections' = Activated(section)
  /\ activeLinks' = Highlighted(section)
  /\ menuOpen' = FALSE
  /\ UNCHANGED ariaExpanded
  /\ PushState(section)

\* the page is loaded with the hash of an element, or with none: the class
\* active goes to the element with that id, a content section or not
LoadPage(hash) ==
  /\ loaderPc = "idle"
  /\ entries = << LoadEntry("home") >>
  /\ index = 1
  /\ ~menuOpen
  /\ hash # "home"
  /\ shown' = IF hash \in Sections THEN hash ELSE "none"
  /\ entries' = << LoadEntry(hash) >>
  /\ activeSections' = Activated(hash)
  /\ activeLinks' = IF hash \in Sections THEN Highlighted(hash) ELSE {}
  /\ menuOpen' = (hash = "navLinks")
  /\ UNCHANGED << index, ariaExpanded, loader, contact, server, relay >>

\* a click on a link with data-section
Click(section) ==
  /\ Len(entries) < MaxHistory
  /\ ShowSection(section)
  /\ UNCHANGED << loader, contact, server, relay >>

\* the popstate listener, run with the browser at entry i
Popstate(i) ==
  IF entries[i].state # "null"
    THEN /\ shown' = entries[i].state
         /\ activeSections' = Activated(entries[i].state)
         /\ activeLinks' = Highlighted(entries[i].state)
         /\ menuOpen' = FALSE
         /\ UNCHANGED ariaExpanded
         /\ entries' = Append(SubSeq(entries, 1, i), [state |-> entries[i].state, hash |-> entries[i].state])
         /\ index' = i + 1
    ELSE /\ index' = i
         /\ UNCHANGED << shown, entries, dom >>

\* the back button: the browser moves one entry back and fires popstate
Back ==
  /\ index > 1
  /\ Popstate(index - 1)
  /\ UNCHANGED << loader, contact, server, relay >>

\* the forward button
Forward ==
  /\ index < Len(entries)
  /\ index + 2 <= MaxHistory
  /\ Popstate(index + 1)
  /\ UNCHANGED << loader, contact, server, relay >>

\* a click on the mobile menu toggle: the list's class is toggled and
\* aria-expanded set to the string of the result
ToggleMenu ==
  /\ menuOpen' = ~menuOpen
  /\ ariaExpanded' = IF menuOpen' THEN "true" ELSE "false"
  /\ UNCHANGED << history, activeSections, activeLinks, loader, contact, server, relay >>

\* a click outside nav: an open menu is closed and aria-expanded set to
\* 'false'
OutsideClick ==
  /\ menuOpen
  /\ menuOpen' = FALSE
  /\ ariaExpanded' = "false"
  /\ UNCHANGED << history, activeSections, activeLinks, loader, contact, server, relay >>

NextNav ==
  \/ \E hash \in Ids : LoadPage(hash)
  \/ \E section \in Sections : Click(section)
  \/ Back
  \/ Forward
  \/ ToggleMenu
  \/ OutsideClick

SpecNav == InitLoader /\ [][NextNav]_vars

\* ------------------------------------------- the contact relay, contact.js
\* what formData.get returns for the three required fields: null for a
\* field that is not in the body, or its text
RelayNames == {Null, << >>, << "A", "l" >>}
RelayEmails == {Null, << "a", "@", "b" >>, << "a", "@", "b", ".", "c" >>}
RelayMessages == {Null, << "H", "e", "l", "l", "o" >>, << "W", "i", "n", " ", "a", " ", "B", "i", "t", "C", "o", "i", "n" >>}
RelayFields == [name : RelayNames, email : RelayEmails, message : RelayMessages]
\* env.RESEND_API_KEY and env.CONTACTS_KV of the deployment
RelayEnvs == [key : {"set", "missing"}, kv : {"bound", "unbound"}]

toLowerCase(text) ==
  LET UpperCase ==
        << "A", "B", "C", "D", "E", "F", "G", "H", "I", "J", "K", "L", "M", "N", "O", "P", "Q", "R", "S", "T", "U", "V", "W", "X", "Y", "Z" >>
      LowerCase ==
        << "a", "b", "c", "d", "e", "f", "g", "h", "i", "j", "k", "l", "m", "n", "o", "p", "q", "r", "s", "t", "u", "v", "w", "x", "y", "z" >>
  IN [i \in DOMAIN text |->
        IF \E k \in DOMAIN UpperCase : UpperCase[k] = text[i]
          THEN LowerCase[CHOOSE k \in DOMAIN UpperCase : UpperCase[k] = text[i]]
          ELSE text[i]]
\* String.prototype.includes
Includes(text, word) == \E i \in 1..(Len(text) + 1) : StartsWithAt(text, word, i)

spamKeywords ==
  {<< "b", "i", "t", "c", "o", "i", "n" >>,
   << "c", "r", "y", "p", "t", "o" >>,
   << "v", "i", "a", "g", "r", "a" >>,
   << "c", "a", "s", "i", "n", "o" >>,
   << "l", "o", "t", "t", "e", "r", "y" >>,
   << "m", "i", "l", "l", "i", "o", "n", " ", "d", "o", "l", "l", "a", "r", "s" >>}
containsSpam(text) == \E keyword \in spamKeywords : Includes(toLowerCase(text), keyword)

\* !value for a field: null and the empty string are falsy
Falsy(value) == value = Null \/ value = << >>

jsonResponse(success, status, text) == [success |-> success, http |-> status, text |-> text]
\* the response of the catch block of onRequestPost
RelayCatchResponse ==
  jsonResponse(FALSE, 500, "Sorry, there was an error sending your message. Please try again.")
RelaySuccessResponse ==
  jsonResponse(TRUE, 200, "Thank you for your message! I'll get back to you soon.")

\* the response of the three checks before the email, NoResponse when the
\* fields pass them
Rejection(f) ==
  IF Falsy(f.name) \/ Falsy(f.email) \/ Falsy(f.message)
    THEN jsonResponse(FALSE, 400, "Name, email, and message are required")
  ELSE IF ~isValidEmail(f.email) THEN jsonResponse(FALSE, 400, "Please provide a valid email address")
  ELSE IF containsSpam(f.message) THEN jsonResponse(FALSE, 400, "Message appears to be spam")
  ELSE NoResponse

\* the request ends with the response rs
RelayFinish(rs) ==
  /\ relayPc' = "done"
  /\ relayResp' = rs

\* a POST reaches onRequestPost of a deployment with the bindings e: the
\* form data is read and checked; sendEmail throws at once without an API
\* key, and starts the fetch to the mail provider with one
Post(f, e) ==
  /\ relayPc \in {"idle", "done"}
  /\ Len(outbox) < MaxSent
  /\ relayEnv \in {NoEnv, e}
  /\ relayEnv' = e
  /\ relayReq' = f
  /\ relaySent' = FALSE
  /\ IF Rejection(f) # NoResponse THEN RelayFinish(Rejection(f))
     ELSE IF e.key = "missing" THEN RelayFinish(RelayCatchResponse)
     ELSE /\ relayPc' = "mail"
          /\ relayResp' = NoResponse
  /\ UNCHANGED << outbox, contacts, page, server >>

\* request.formData() rejects
PostUnreadable(e) ==
  /\ relayPc \in {"idle", "done"}
  /\ relayEnv \in {NoEnv, e}
  /\ relayEnv' = e
  /\ relayReq' = NoFields
  /\ relaySent' = FALSE
  /\ RelayFinish(RelayCatchResponse)
  /\ UNCHANGED << outbox, contacts, page, server >>

\* the fetch to the mail provider rejects
MailThrows ==
  /\ relayPc = "mail"
  /\ RelayFinish(RelayCatchResponse)
  /\ UNCHANGED << relayEnv, relayReq, relaySent, outbox, contacts, page, server >>

\* variant: a non-OK answer of the mail provider is logged, not thrown
MailNotOkLogged ==
  /\ relayPc = "mail"
  /\ relayPc' = "mailJson"
  /\ UNCHANGED << relayEnv, relayReq, relaySent, relayResp, outbox, contacts, page, server >>

\* the mail provider answers with a non-OK status: sendEmail throws
MailNotOk ==
  /\ relayPc = "mail"
  /\ RelayFinish(RelayCatchResponse)
  /\ UNCHANGED << relayEnv, relayReq, relaySent, outbox, contacts, page, server >>

\* the mail provider answers OK: the email is accepted, its body is read
MailOk ==
  /\ relayPc = "mail"
  /\ relaySent' = TRUE
  /\ outbox' = Append(outbox, relayReq)
  /\ relayPc' = "mailJson"
  /\ UNCHANGED << relayEnv, relayReq, relayResp, contacts, page, server >>

\* response.json() of the provider's answer rejects
MailJsonThrows ==
  /\ relayPc = "mailJson"
  /\ RelayFinish(RelayCatchResponse)
  /\ UNCHANGED << relayEnv, relayReq, relaySent, outbox, contacts, page, server >>

\* sendEmail returns: the put is started when CONTACTS_KV is bound, the
\* success response is returned when it is not
MailJsonOk ==
  /\ relayPc = "mailJson"
  /\ IF relayEnv.kv = "bound"
       THEN /\ relayPc' = "put"
            /\ UNCHANGED relayResp
       ELSE RelayFinish(RelaySuccessResponse)
  /\ UNCHANGED << relayEnv, relayReq, relaySent, outbox, contacts, page, server >>

\* CONTACTS_KV.put(contactId, JSON.stringify({...})): two arguments, no
\* options
ContactPut(f) == [value |-> f, options |-> {}]

\* the put resolves
ContactPutOk ==
  /\ relayPc = "put"
  /\ contacts' = Append(contacts, ContactPut(relayReq))
  /\ RelayFinish(RelaySuccessResponse)
  /\ UNCHANGED << relayEnv, relayReq, relaySent, outbox, page, server >>

\* the put rejects
ContactPutThrows ==
  /\ relayPc = "put"
  /\ RelayFinish(RelayCatchResponse)
  /\ UNCHANGED << relayEnv, relayReq, relaySent, outbox, contacts, page, server >>

NextRelay ==
  \/ \E f \in RelayFields, e \in RelayEnvs : Post(f, e)
  \/ \E e \in RelayEnvs : PostUnreadable(e)
  \/ MailThrows
  \/ MailNotOk
  \/ MailOk
  \/ MailJsonThrows
  \/ MailJsonOk
  \/ ContactPutOk
  \/ ContactPutThrows

SpecRelay == InitLoader /\ [][NextRelay]_vars

\* The runtime resumes a request whose cache put has settled and the clock
\* runs on; nothing makes the upstream answer.
FairSpec ==
  /\ Spec
  /\ WF_vars(Tick)
  /\ \A r \in Reqs : WF_vars(PutOk(r) \/ PutThrows(r))

TypeOK ==
  /\ now \in 0..MaxTime
  /\ \A r \in Reqs : pc[r] \in {"idle", "fetch", "text", "put", "done", "abandoned"}

\* ------------------------------------------------------------- properties
\* the outcomes of a failed upstream fetch
Failures == {"neterr", "http500", "bodyerr"}

\* what the request r holds
Local(r) == << pc[r], getResult[r], fetchResult[r], putResult[r], items[r],
               updatedAt[r], resp[r] >>

\* this step is the entry of r into the handler (cache lookup included)
StartedBy(r) ==
  /\ Free(r)
  /\ pc'[r] \in {"fetch", "done"}
  /\ Local(r)' # Local(r)

IsOk(rs) == rs.status = "ok"
IsError(rs) == rs.status = "error"

\* C1: a request that reads an existing cache entry answers status ok,
\* cached = true, the entry's records and the entry's updatedAt; and a
\* request whose get works, made less than TTL seconds after a put was
\* stored, is such a hit and reports the updatedAt that put stored.
Thm_C1 ==
  [][\A r \in Reqs :
       (StartedBy(r) /\ getResult'[r] \in {"hit", "miss"}) =>
         /\ (cache # NoEntry) <=> (getResult'[r] = "hit")
         /\ getResult'[r] = "hit" =>
              /\ pc'[r] = "done"
              /\ IsOk(resp'[r]) /\ resp'[r].http = 200
              /\ resp'[r].cached = TRUE
              /\ resp'[r].items = cache.value.items
              /\ resp'[r].updatedAt = cache.value.updatedAt
         /\ (lastPut # NoPut /\ now - lastPut.at < TTL) =>
              /\ getResult'[r] = "hit"
              /\ resp'[r].cached = TRUE
              /\ resp'[r].items = lastPut.items
              /\ resp'[r].updatedAt = lastPut.updatedAt]_vars

\* C1 witness: q stored an entry, time passed, and r was answered from it
Witness_C1 ==
  \E r, q \in Reqs :
    /\ r # q
    /\ pc[q] = "done" /\ putResult[q] = "ok" /\ resp[q].cached = FALSE
    /\ pc[r] = "done" /\ getResult[r] = "hit" /\ resp[r].cached = TRUE
    /\ resp[r].updatedAt = updatedAt[q]
    /\ resp[r].items = items[q]
    /\ lastPut.by = q
    /\ now > lastPut.at

\* C2 (as claimed): every answer with cached = true is given less than TTL
\* seconds after the updatedAt of the entry it is built from.
Claim_C2 ==
  [][\A r \in Reqs :
       (StartedBy(r) /\ getResult'[r] = "hit") =>
         now - resp'[r].updatedAt < TTL]_vars

\* C3: a request that parsed a fetched document calls put exactly when the
\* cache is configured and the parsed list is non-empty, and every entry in
\* the cache holds a non-empty record list.
Thm_C3 ==
  /\ cache # NoEntry => Len(cache.value.items) > 0
  /\ \A r \in Reqs :
       /\ pc[r] = "put" => configured /\ Len(items[r]) > 0
       /\ putResult[r] # "none" => fetchResult[r].outcome = "ok" /\ getResult[r] # "hit"
       /\ (pc[r] = "done" /\ fetchResult[r].outcome = "ok") =>
            ((putResult[r] # "none") <=>
               (configured /\ Len(parseRssFeed(fetchResult[r].text)) > 0))

\* C3 witness: one request parsed an empty feed and did not put, the other
\* parsed a non-empty feed and its entry is in the cache
Witness_C3 ==
  \E r, q \in Reqs :
    /\ configured
    /\ pc[r] = "done" /\ fetchResult[r].outcome = "ok"
    /\ fetchResult[r].text = << >> /\ putResult[r] = "none"
    /\ pc[q] = "done" /\ putResult[q] = "ok"
    /\ cache # NoEntry /\ cache.value.items = items[q]

\* C4 (as claimed): the updatedAt of the response of a miss that stored an
\* entry is the updatedAt written into that entry.
Claim_C4 ==
  \A r \in Reqs :
    (pc[r] = "done" /\ putResult[r] = "ok") => resp[r].updatedAt = updatedAt[r]

\* C5: a request whose upstream fetch failed has ended with the error
\* response (status error, HTTP 500), which carries no records.
Thm_C5 ==
  \A r \in Reqs :
    fetchResult[r].outcome \in Failures =>
      /\ pc[r] = "done"
      /\ IsError(resp[r]) /\ resp[r].http = 500
      /\ "items" \notin DOMAIN resp[r]

\* C5 witness: the get threw although an entry is stored, upstream answered
\* with a non-ok status, and the request ended with the error response
Witness_C5 ==
  \E r \in Reqs :
    /\ getResult[r] = "threw" /\ fetchResult[r].outcome = "http500"
    /\ pc[r] = "done" /\ IsError(resp[r])
    /\ cache # NoEntry

\* C6: a request whose fetch failed or was abandoned made no put, makes none
\* later, and the step in which the fetch fails or is abandoned leaves the
\* cache store as it was.
Thm_C6 ==
  /\ [](\A r \in Reqs :
          fetchResult[r].outcome \in Failures \cup {"aborted"} =>
            /\ putResult[r] = "none"
            /\ pc[r] \in {"done", "abandoned"})
  /\ [][\A r \in Reqs :
          (fetchResult'[r] # fetchResult[r]
             /\ fetchResult'[r].outcome \in Failures \cup {"aborted"}) =>
            (cache' = cache /\ lastPut' = lastPut)]_vars

\* C6 witness: with a configured cache, one request was abandoned during the
\* fetch and another one's fetch was rejected
Witness_C6 ==
  \E r, q \in Reqs :
    /\ configured
    /\ pc[r] = "abandoned" /\ fetchResult[r].outcome = "aborted"
    /\ pc[q] = "done" /\ fetchResult[q].outcome = "neterr"
    /\ cache = NoEntry

\* C7: a request whose put threw has ended with status ok, HTTP 200,
\* cached = false and the records parsed from the document it fetched, the
\* response a successful put is followed by.
Thm_C7 ==
  /\ [](\A r \in Reqs :
          putResult[r] = "threw" =>
            /\ pc[r] = "done"
            /\ IsOk(resp[r]) /\ resp[r].http = 200
            /\ resp[r].cached = FALSE
            /\ resp[r].items = parseRssFeed(fetchResult[r].text)
            /\ resp[r].count = Len(resp[r].items))
  /\ [][\A r \in Reqs :
          (pc[r] = "put" /\ pc'[r] = "done") =>
            resp'[r] = OkResponse(items[r], now, FALSE)]_vars

\* C7 witness: a put threw, nothing is stored, the request was answered
Witness_C7 ==
  \E r \in Reqs :
    /\ putResult[r] = "threw" /\ pc[r] = "done"
    /\ IsOk(resp[r]) /\ Len(resp[r].items) > 0
    /\ cache = NoEntry

\* C8: a request for which the cache is not configured or whose get threw
\* goes on to the upstream fetch; it is answered with status ok and
\* cached = false when the fetch succeeds, and with the error response only
\* when the fetch failed.
Thm_C8 ==
  \A r \in Reqs :
    getResult[r] \in {"skipped", "threw"} =>
      /\ fetchResult[r].outcome = "none" => pc[r] \in {"fetch", "text"}
      /\ pc[r] = "done" =>
           /\ fetchResult[r].outcome = "ok" =>
                /\ IsOk(resp[r]) /\ resp[r].cached = FALSE
                /\ resp[r].items = parseRssFeed(fetchResult[r].text)
           /\ IsError(resp[r]) => fetchResult[r].outcome \in Failures
           /\ IsOk(resp[r]) \/ IsError(resp[r])

\* C8 witness: the get threw while an entry is stored, and the request was
\* answered from a fresh fetch
Witness_C8 ==
  \E r \in Reqs :
    /\ getResult[r] = "threw" /\ pc[r] = "done"
    /\ fetchResult[r].outcome = "ok"
    /\ IsOk(resp[r]) /\ resp[r].cached = FALSE
    /\ cache # NoEntry

\* C9: a finished request that fetched a document without items is answered
\* status ok, HTTP 200, no records, count 0; one whose fetch failed is
\* answered status error; and neither answer is given in the other case.
Thm_C9 ==
  \A r \in Reqs :
    pc[r] = "done" =>
      /\ (fetchResult[r].outcome = "ok" /\ Len(fetchResult[r].text) = 0) =>
           /\ IsOk(resp[r]) /\ resp[r].http = 200
           /\ resp[r].items = << >> /\ resp[r].count = 0
      /\ fetchResult[r].outcome \in Failures => IsError(resp[r])
      /\ IsError(resp[r]) => fetchResult[r].outcome \in Failures
      /\ (IsOk(resp[r]) /\ resp[r].count = 0) =>
           (fetchResult[r].outcome = "ok" /\ Len(fetchResult[r].text) = 0)

\* C9 witness: one request answered a valid empty feed, the other a failure
Witness_C9 ==
  \E r, q \in Reqs :
    /\ pc[r] = "done" /\ IsOk(resp[r]) /\ resp[r].count = 0
    /\ pc[q] = "done" /\ IsError(resp[q])

\* C10: a finished request that saw the cache absent and parsed a non-empty
\* feed made its own fetch and its own put; an entry in the cache is the
\* complete entry (records, updatedAt, expiration) of the put that
\* completed last.
Thm_C10 ==
  /\ \A r \in Reqs :
       (pc[r] = "done" /\ getResult[r] = "miss" /\ IsOk(resp[r])
          /\ resp[r].count > 0) =>
         (fetchResult[r].outcome = "ok" /\ putResult[r] # "none")
  /\ cache # NoEntry =>
       /\ lastPut # NoPut
       /\ cache.value = [items |-> lastPut.items, updatedAt |-> lastPut.updatedAt]
       /\ cache.expiration = lastPut.at + TTL

\* C10 witness: both requests missed before either wrote, both put, and the
\* cache holds the entry of the one that put last, not the other's
Witness_C10 ==
  \E r, q \in Reqs :
    /\ r # q
    /\ now < TTL
    /\ pc[r] = "done" /\ getResult[r] = "miss" /\ putResult[r] = "ok"
    /\ pc[q] = "done" /\ getResult[q] = "miss" /\ putResult[q] = "ok"
    /\ updatedAt[r] # updatedAt[q]
    /\ lastPut.by = q
    /\ cache # NoEntry /\ cache.value.updatedAt = updatedAt[q]

\* no other request is in flight
Quiet(r) == \A q \in Reqs \ {r} : Free(q)

\* C11: once a put has been stored, a request that does not overlap another
\* and whose get works is answered without an upstream fetch as long as less
\* than TTL seconds have passed since that put, so such a request contacts
\* upstream only TTL seconds or more after the last stored put.
Thm_C11 ==
  [][\A r \in Reqs :
       (StartedBy(r) /\ Quiet(r) /\ getResult'[r] \in {"hit", "miss"}
          /\ lastPut # NoPut) =>
         /\ now - lastPut.at < TTL =>
              (pc'[r] = "done" /\ fetchResult'[r] = NoFetch
                 /\ resp'[r].cached = TRUE)
         /\ pc'[r] = "fetch" => now - lastPut.at >= TTL]_vars

\* C11 witness: q fetched and stored, and r, started later within the TTL
\* with q finished, was answered without a fetch
Witness_C11 ==
  \E r, q \in Reqs :
    /\ r # q
    /\ pc[q] = "done" /\ putResult[q] = "ok" /\ fetchResult[q].outcome = "ok"
    /\ lastPut.by = q
    /\ pc[r] = "done" /\ getResult[r] = "hit" /\ fetchResult[r] = NoFetch
    /\ now - lastPut.at >= Step /\ now - lastPut.at < TTL

\* C12: a request answered from the cache makes no put; a hit and an OPTIONS
\* request leave the store as it is; an entry disappears only when its
\* expiration is reached and is replaced only by the put of a miss.
Thm_C12 ==
  /\ [](\A r \in Reqs :
          getResult[r] = "hit" => (pc[r] = "done" /\ putResult[r] = "none"))
  /\ [][\A r \in Reqs :
          (StartedBy(r)
             /\ (getResult'[r] = "hit" \/ resp'[r] = OptionsResponse)) =>
            cache' = cache]_vars
  /\ [][(cache # NoEntry /\ cache' = NoEntry) => now' >= cache.expiration]_vars
  /\ [][(cache # NoEntry /\ cache' # NoEntry /\ cache' # cache) =>
          \E r \in Reqs : pc[r] = "put" /\ putResult'[r] = "ok"]_vars

\* C12 witness: after the entry was stored and time passed, one request was
\* answered from it and an OPTIONS request was served; the entry is intact
Witness_C12 ==
  \E r, q \in Reqs :
    /\ getResult[r] = "hit" /\ pc[r] = "done"
    /\ resp[q] = OptionsResponse
    /\ cache # NoEntry
    /\ cache.value.updatedAt = resp[r].updatedAt
    /\ cache.expiration = lastPut.at + TTL
    /\ now > lastPut.at

\* C13 (as claimed): a request waiting for the upstream fetch eventually
\* ends, with a response or by being abandoned.
Claim_C13 ==
  \A r \in Reqs : (pc[r] = "fetch") ~> (pc[r] \in {"done", "abandoned"})

\* C14: every success envelope carries status, items, count, updatedAt and
\* cached, and its count is the length of its items.
Thm_C14 ==
  \A r \in Reqs :
    IsOk(resp[r]) =>
      /\ {"status", "items", "count", "updatedAt", "cached"} \subseteq DOMAIN resp[r]
      /\ resp[r].count = Len(resp[r].items)
      /\ resp[r].cached \in BOOLEAN

\* C14 witness: a hit envelope and a miss envelope, both with two records
Witness_C14 ==
  \E r, q \in Reqs :
    /\ IsOk(resp[r]) /\ resp[r].cached = TRUE /\ resp[r].count = 2
    /\ IsOk(resp[q]) /\ resp[q].cached = FALSE /\ resp[q].count = 2
    /\ putResult[q] = "ok"

\* ------------------------------------------------- properties of the parser
\* the request r holds the list parseRssFeed returned for its document
Parsed(r) == fetchResult[r].outcome = "ok"

\* the number of item blocks: an <item> opens a block, the first </item>
\* after it closes the block
RECURSIVE PairCount(_, _, _)
PairCount(doc, i, open) ==
  IF i > Len(doc) THEN 0
  ELSE IF ~open /\ doc[i] = OpenItem THEN PairCount(doc, i + 1, TRUE)
  ELSE IF open /\ doc[i] = CloseItem THEN 1 + PairCount(doc, i + 1, FALSE)
  ELSE PairCount(doc, i + 1, open)

\* the document has an element of this name
HasElement(doc, tag) == \E i \in 1..Len(doc) : doc[i].k = "el" /\ doc[i].tag = tag

\* C15: in the list the parser returns, every adjacent pair A, B has
\* timestamp(A) >= timestamp(B), an unparsable date counting as the
\* smallest timestamp.
Claim_C15 ==
  \A r \in Reqs :
    Parsed(r) =>
      \A i \in 1..(Len(items[r]) - 1) :
        LET a == items[r][i].timestamp
            b == items[r][i + 1].timestamp
        IN b.nan \/ (~a.nan /\ a.ms >= b.ms)

\* C16: an unparsable publish date does not make the parse fail, its item
\* comes after every item with a parsable date, and the items with parsable
\* dates are newest first.
Claim_C16 ==
  \A r \in Reqs :
    Parsed(r) =>
      /\ ~IsError(resp[r])
      /\ \A i, j \in 1..Len(items[r]) :
           i < j =>
             /\ items[r][i].timestamp.nan => items[r][j].timestamp.nan
             /\ (~items[r][i].timestamp.nan /\ ~items[r][j].timestamp.nan) =>
                  items[r][i].timestamp.ms >= items[r][j].timestamp.ms

\* C17: two records with equal numeric timestamps come out in the order of
\* their item blocks in the document (the titles of a dated feed number its
\* blocks).
Claim_C17 ==
  \A r \in Reqs :
    (Parsed(r) /\ fetchResult[r].text \in DatedDocs) =>
      \A i, j \in 1..Len(items[r]) :
        ( /\ i < j
          /\ ~items[r][i].timestamp.nan /\ ~items[r][j].timestamp.nan
          /\ items[r][i].timestamp.ms = items[r][j].timestamp.ms ) =>
          \E k, l \in 1..Len(items[r]) :
            /\ k < l
            /\ items[r][i].title = TitleOf(k)
            /\ items[r][j].title = TitleOf(l)

\* C18: the parser returns one record per item block -- as many records as
\* the document has paired <item> and </item> -- and a document without an
\* item block gives the empty list and a success envelope with no records.
Thm_C18 ==
  \A r \in Reqs :
    Parsed(r) =>
      /\ Len(items[r]) = PairCount(fetchResult[r].text, 1, FALSE)
      /\ PairCount(fetchResult[r].text, 1, FALSE) = 0 =>
           /\ items[r] = << >>
           /\ pc[r] = "done"
           /\ IsOk(resp[r]) /\ resp[r].count = 0

\* C18 witness: a document with two <item> and one </item> gave one record
Witness_C18 ==
  \E r \in Reqs :
    /\ Parsed(r)
    /\ Cardinality({i \in 1..Len(fetchResult[r].text) :
                      fetchResult[r].text[i] = OpenItem}) = 2
    /\ Cardinality({i \in 1..Len(fetchResult[r].text) :
                      fetchResult[r].text[i] = CloseItem}) = 1
    /\ Len(items[r]) = 1

\* C19: whatever the fetched text, the parser returns a list of complete
\* records, a field the block does not give holds its default, and the
\* request is not answered with the error envelope.
Thm_C19 ==
  \A r \in Reqs :
    Parsed(r) =>
      /\ ~IsError(resp[r])
      /\ pc[r] \in {"put", "done"}
      /\ pc[r] = "done" => (IsOk(resp[r]) /\ resp[r].items = items[r])
      /\ \A i \in 1..Len(items[r]) :
           LET rec == items[r][i]
               doc == fetchResult[r].text
           IN /\ DOMAIN rec = {"title", "description", "link", "pubDate",
                               "author", "image", "timestamp"}
              /\ ~RaisedIn(rec)
              /\ ~HasElement(doc, "title") => rec.title = Untitled
              /\ ~HasElement(doc, "description") =>
                   (rec.description = << >> /\ rec.image = Null)
              /\ ~HasElement(doc, "link") => rec.link = NoLink
              /\ ~HasElement(doc, "pubDate") => rec.pubDate = NowISO
              /\ ~HasElement(doc, "creator") => rec.author = SiteAuthor

\* C19 witness: a block holding only a stray fragment was answered with a
\* success envelope whose one record carries every default
Witness_C19 ==
  \E r \in Reqs :
    /\ Parsed(r)
    /\ fetchResult[r].text = << OpenItem, Junk, CloseItem, Junk >>
    /\ pc[r] = "done"
    /\ IsOk(resp[r]) /\ resp[r].count = 1
    /\ resp[r].items[1].title = Untitled
    /\ resp[r].items[1].link = NoLink
    /\ resp[r].items[1].author = SiteAuthor

\* C20: each item block gets its own title: the text of its CDATA title if
\* it has one, else the text of its plain title if it has one, else
\* "Untitled".  The titles of the returned records are, block for block,
\* these titles.
Claim_C20 ==
  \A r \in Reqs :
    Parsed(r) =>
      LET blocks == ItemContents(fetchResult[r].text, 1)
          claimed(b) ==
            LET c == FirstMatch({x \in DOMAIN b : b[x].k = "el" /\ b[x].tag = "title" /\ b[x].cdata})
                t == FirstMatch({x \in DOMAIN b : b[x].k = "el" /\ b[x].tag = "title" /\ ~b[x].cdata})
            IN IF c # 0 THEN decodeHtml(Trim(b[c].text))
               ELSE IF t # 0 THEN decodeHtml(Trim(b[t].text))
               ELSE Untitled
          titles == {claimed(blocks[i]) : i \in 1..Len(blocks)}
                      \cup {items[r][i].title : i \in 1..Len(items[r])}
      IN \A t \in titles :
           Cardinality({i \in 1..Len(blocks) : claimed(blocks[i]) = t})
             = Cardinality({i \in 1..Len(items[r]) : items[r][i].title = t})

\* ---------------------------------------- properties of the item's fields
\* the request r parsed a feed of one item block holding one element of
\* this name and form
HasOne(r, tag, isCdata) ==
  /\ Parsed(r)
  /\ Len(fetchResult[r].text) = 3
  /\ fetchResult[r].text[1] = OpenItem
  /\ fetchResult[r].text[3] = CloseItem
  /\ fetchResult[r].text[2].k = "el"
  /\ fetchResult[r].text[2].tag = tag
  /\ fetchResult[r].text[2].cdata = isCdata

\* the text of that element
OneText(r) == fetchResult[r].text[2].text

\* the entity names of decodeHtml's table
Entities == {<< "&", "a", "m", "p", ";" >>, << "&", "l", "t", ";" >>, << "&", "g", "t", ";" >>, << "&", "q", "u", "o", "t", ";" >>, << "&", "#", "0", "3", "9", ";" >>, << "&", "n", "b", "s", "p", ";" >>}

\* s with every occurrence of an entity name replaced by its character
RECURSIVE DecodeEvery(_)
DecodeEvery(s) ==
  IF s = << >> THEN << >>
  ELSE LET E == {e \in Entities : StartsWithAt(s, e, 1)}
       IN IF E # {}
            THEN LET e == CHOOSE x \in E : TRUE
                 IN EntityOf(e) \o DecodeEvery(SubSeq(s, Len(e) + 1, Len(s)))
            ELSE << Head(s) >> \o DecodeEvery(Tail(s))

\* C21: the title of an item block with a CDATA title is the CDATA content
\* with every occurrence of the six entities decoded and, after that, the
\* surrounding whitespace trimmed.
Claim_C21 ==
  \A r \in Reqs :
    HasOne(r, "title", TRUE) =>
      /\ Len(items[r]) = 1
      /\ items[r][1].title = Trim(DecodeEvery(OneText(r)))

\* C22: the title of every record the parser returns is a non-empty text.
Claim_C22 ==
  \A r \in Reqs :
    Parsed(r) => \A i \in 1..Len(items[r]) : items[r][i].title # << >>

\* C23: title, description, link, pubDate and author of every record are
\* not null; an item without a link has "#", one without an author or
\* creator element has the site's name, one without a publish date has the
\* current instant, and one without a CDATA description -- a plain
\* description included -- has the empty description.
Thm_C23 ==
  \A r \in Reqs :
    Parsed(r) =>
      \A i \in 1..Len(items[r]) :
        LET rec == items[r][i]
            doc == fetchResult[r].text
        IN /\ Null \notin {rec.title, rec.description, rec.link, rec.pubDate, rec.author}
           /\ ~HasElement(doc, "link") => rec.link = NoLink
           /\ (~HasElement(doc, "creator") /\ ~HasElement(doc, "dc:creator")) =>
                rec.author = SiteAuthor
           /\ ~HasElement(doc, "pubDate") => rec.pubDate = NowISO
           /\ (~\E x \in DOMAIN doc : doc[x].k = "el" /\ doc[x].tag = "description" /\ doc[x].cdata) =>
                rec.description = << >>

\* C23 witness: an item holding only a plain description was answered with
\* the empty description and the defaults of the other fields
Witness_C23 ==
  \E r \in Reqs :
    /\ HasOne(r, "description", FALSE)
    /\ OneText(r) # << >>
    /\ pc[r] = "done" /\ IsOk(resp[r]) /\ resp[r].count = 1
    /\ resp[r].items[1].description = << >>
    /\ resp[r].items[1].link = NoLink
    /\ resp[r].items[1].author = SiteAuthor
    /\ resp[r].items[1].pubDate = NowISO

FirstImgSrc(s) ==
  LET I == {i \in 1..Len(s) : StartsWithAt(s, << "<", "i", "m", "g" >>, i)}
  IN IF I = {} THEN Null
     ELSE LET i == CHOOSE x \in I : \A y \in I : x <= y
              J == {j \in i..Len(s) : StartsWithAt(s, << " ", "s", "r", "c", "=" >>, j)}
              j == CHOOSE x \in J : \A y \in J : x <= y
          IN SubSeq(s, j + 6, IndexOfQuote(s, j + 6) - 1)

\* C25: the image of an item whose CDATA description holds an image tag is
\* the value of the src attribute of the first such tag; the image of an
\* item whose description has no image tag, or which has no CDATA
\* description, is null.
Claim_C25 ==
  \A r \in Reqs :
    /\ HasOne(r, "description", TRUE) => items[r][1].image = FirstImgSrc(OneText(r))
    /\ (Parsed(r) /\ ~\E x \in DOMAIN fetchResult[r].text :
                        /\ fetchResult[r].text[x].k = "el"
                        /\ fetchResult[r].text[x].tag = "description"
                        /\ fetchResult[r].text[x].cdata) =>
         \A i \in 1..Len(items[r]) : items[r][i].image = Null

\* ------------------------------------------------- properties of the page
\* C26: once loadSubstackPosts has started, the container leaves the
\* skeleton state and does not return to it: whatever /api/blog does, after
\* the tenth second it shows posts or a message.
Thm_C26 ==
  /\ [](loaderPc # "idle" /\ elapsed > LoaderDelay => view # Skeleton)
  /\ (loaderPc # "idle") ~> (view # Skeleton)
  /\ [][view # Skeleton => view' # Skeleton]_vars

\* C26 witness: the body is still being read at the tenth second and the
\* container shows the message of the 10-second timer
Witness_C26 ==
  /\ loaderPc = "json"
  /\ elapsed = LoaderDelay
  /\ loadTimer = "fired"
  /\ view = Message(SlowMsg)

\* C27: for a success envelope with N posts the container shows the first
\* min(N, 6) posts of the array, in the array's order.
Claim_C27 ==
  (loaderPc = "done" /\ apiData.status = "ok" /\ Len(apiData.items) > 0) =>
    /\ view.kind = "posts"
    /\ view.posts = SubSeq(apiData.items, 1, Min(Len(apiData.items), 6))

\* C28: a success envelope without posts shows the 'No posts found'
\* message; a non-OK response, a network error or an aborted request shows
\* an 'Unable', 'unavailable' or 'took longer' message, and never post cards.
Claim_C28 ==
  /\ (loaderPc = "done" /\ apiData.status = "ok" /\ apiData.items = << >>) =>
       view = Message(NoPostsMsg)
  /\ loadError # NoError =>
       /\ view.kind = "message"
       /\ view.text \in {UnableMsg, UnavailableMsg, AbortMsg}

\* C28 as amended: a success envelope without posts shows the 'No posts
\* found' message; a failure shows one of the four failure messages -- the
\* 'Network connection issue' message included -- which is never the
\* 'No posts found' message, and never post cards.
Thm_C28 ==
  /\ (loaderPc = "done" /\ apiData.status = "ok" /\ apiData.items = << >>) =>
       view = Message(NoPostsMsg)
  /\ loadError # NoError =>
       /\ view.kind = "message"
       /\ view.text \in {UnableMsg, UnavailableMsg, AbortMsg, NetworkMsg}
       /\ view.text # NoPostsMsg
       /\ apiData = NoData
  /\ loadError \in {AbortError} => view.text = AbortMsg
  /\ loadError \in {HttpError} => view.text = UnavailableMsg
  /\ loadError \in NetworkErrors => view.text \in {NetworkMsg, UnableMsg}

\* C28 witness: a fetch that failed with "Failed to fetch" left the network
\* message in the container
Witness_C28 ==
  /\ loaderPc = "done"
  /\ loadError = FailedToFetch
  /\ view = Message(NetworkMsg)
  /\ loadTimer = "cleared"

\* C29: a submission whose fields pass validation (name of at least 2
\* characters, well-formed email, message of at least 10 characters) is sent
\* to /contact, with or without a CAPTCHA token, and a submission whose
\* fields fail validation is not sent.
Claim_C29 ==
  [][Submit =>
       IF /\ Len(Trim(form.name)) >= 2
          /\ isValidEmail(Trim(form.email))
          /\ Len(Trim(form.message)) >= 10
         THEN posted' = Append(posted, form) /\ formPc' = "sending"
         ELSE posted' = posted /\ formPc' = "idle"]_vars

\* C30: the back button shows the section visited before the current one
\* -- the section of the page load included -- and leaves the current one
\* to the forward button; the forward button shows the section of the next
\* entry.
Claim_C30 ==
  /\ [][Back =>
          /\ shown' = entries[index - 1].hash
          /\ index' < Len(entries')
          /\ entries'[index' + 1].hash = shown]_vars
  /\ [][Forward => shown' = entries[index + 1].hash]_vars

\* C31: every contact submission written to the contacts store is written
\* with an expiration of 90 days (expirationTtl of 7776000 seconds), so that
\* no stored submission stays forever.
Claim_C31 ==
  \A i \in DOMAIN contacts :
    << "expirationTtl", 90 * 24 * 60 * 60 >> \in contacts[i].options

\* C35: the relay writes a submission to the store only after the mail
\* provider accepted the request's email, and answers success only after it;
\* a request rejected by one of the three checks has no email sent, and a
\* request whose email was not accepted stores nothing and is answered
\* with success = false.
Thm_C35 ==
  /\ [][contacts' # contacts =>
          /\ relaySent
          /\ outbox[Len(outbox)] = relayReq
          /\ contacts' = Append(contacts, ContactPut(relayReq))]_vars
  /\ [][outbox' # outbox =>
          /\ Rejection(relayReq) = NoResponse
          /\ relayResp = NoResponse]_vars
  /\ [](relayPc = "done" /\ relayResp.success => relaySent)
  /\ [](relayPc = "done" /\ Rejection(relayReq) # NoResponse =>
          ~relaySent /\ ~relayResp.success /\ relayResp.http \in {400, 500})
  /\ [](relayPc = "done" /\ ~relaySent => ~relayResp.success)

Witness_C35 ==
  /\ relayPc = "done"
  /\ relayResp = RelaySuccessResponse
  /\ relaySent
  /\ Len(outbox) = 1
  /\ Len(contacts) = 1
  /\ contacts[1].value = outbox[1]

\* C32: there is no negative caching.  A document without items is never
\* written to the cache: the request that received it leaves the store as
\* it is and answers with no items and cached = false, and every entry of
\* the store holds at least one item; a request that finds no entry goes on
\* to the upstream fetch, and a request that did not read an entry never
\* answers cached = true.
Thm_C32 ==
  /\ [](cache # NoEntry => Len(cache.value.items) > 0)
  /\ [](\A r \in Reqs : pc[r] = "put" => Len(items[r]) > 0)
  /\ [][\A r \in Reqs :
          (/\ pc[r] = "text"
           /\ fetchResult'[r].outcome = "ok"
           /\ parseRssFeed(fetchResult'[r].text) = << >>)
          => /\ cache' = cache
             /\ lastPut' = lastPut
             /\ pc'[r] = "done"
             /\ resp'[r] = OkResponse(<< >>, now, FALSE)]_vars
  /\ [][\A r \in Reqs :
          (/\ cache = NoEntry
           /\ StartNoCache(r) \/ StartCacheThrows(r) \/ StartCacheMiss(r) \/ StartCacheHit(r))
          => pc'[r] = "fetch" /\ resp'[r] = NoResponse]_vars
  /\ [](\A r \in Reqs :
          (pc[r] = "done" /\ getResult[r] \in {"miss", "skipped", "threw"} /\ resp[r].status = "ok")
          => ~resp[r].cached)

Witness_C32 ==
  /\ configured
  /\ cache = NoEntry
  /\ lastPut = NoPut
  /\ \A r \in Reqs :
       /\ pc[r] = "done"
       /\ getResult[r] = "miss"
       /\ fetchResult[r].outcome = "ok"
       /\ parseRssFeed(fetchResult[r].text) = << >>
       /\ resp[r].status = "ok"
       /\ resp[r].items = << >>
       /\ ~resp[r].cached

\* C33: post cards that are displayed stay displayed: neither timer, firing
\* before or after the response, replaces them by a message; and the
\* message the 10-second timer has shown is replaced by the post cards when
\* a body with posts arrives after it.
Thm_C33 ==
  /\ [][view.kind = "posts" => view' = view]_vars
  /\ [](view.kind = "posts" => loadTimer # "armed" /\ fetchTimer # "armed" /\ loadError = NoError)
  /\ [][(/\ view = Message(SlowMsg)
         /\ loaderPc = "json"
         /\ apiData'.status = "ok"
         /\ Len(apiData'.items) > 0)
        => view' = Cards(SubSeq(apiData'.items, 1, Min(Len(apiData'.items), Preview)))]_vars

Witness_C33 ==
  /\ view.kind = "posts"
  /\ loadTimer = "fired"
  /\ elapsed > LoaderDelay
  /\ loaderPc = "done"

\* C34: the submit button is disabled, with the label 'Sending...', exactly
\* while a request to /contact is running; when the request settles, with
\* any outcome, the button is enabled again with the label 'Send Message';
\* a submission stopped by validation or by the token check leaves the
\* button enabled.
Thm_C34 ==
  /\ [](formPc = "sending" => button = SendingButton)
  /\ [](formPc = "idle" => button = SendButton)
  /\ [][formPc = "sending" /\ formPc' # "sending" => button' = SendButton]_vars
  /\ [][Submit /\ posted' = posted => button' = SendButton /\ formPc' = "idle"]_vars

Witness_C34 ==
  /\ formPc = "idle"
  /\ button = SendButton
  /\ formMessage = [type |-> "error", text |-> TooLongMsg]
  /\ Len(posted) = 1

\* C36: after the page is initialised, and after any clicks on links and
\* popstate events, at most one content section has the class active, at
\* most one link is highlighted and its data-section is the active section,
\* and the mobile menu is closed after every call of showSection.
Thm_C36 ==
  /\ [](Cardinality(activeSections) <= 1)
  /\ [](Cardinality(activeLinks) <= 1)
  /\ [](\A i \in activeLinks : Links[i] \in activeSections)
  /\ [][(\E section \in Sections : ShowSection(section)) =>
          ~menuOpen' /\ activeSections' = {shown'}]_vars

Witness_C36 ==
  /\ activeSections = {"blog"}
  /\ activeLinks = {FirstLink("blog")}
  /\ ~menuOpen
  /\ ariaExpanded = "true"
  /\ index = 3
  /\ entries[2].state = "about"
  /\ entries[3].state = "blog"

\* C37: aria-expanded of the mobile menu toggle is 'true' exactly when the
\* list of navigation links has the class active, whatever toggle clicks,
\* outside clicks and section navigations came before.
Claim_C37 == (ariaExpanded = "true") <=> menuOpen

====
